---- MODULE Spec2Model ----
(***************************************************************************)
(* Model of the Stage class (core/Stage of astrofox): the root display     *)
(* that owns an ordered list of scenes, a dirty flag, the stage properties *)
(* and the rendering resources.                                            *)
(*                                                                         *)
(* Every method of Stage is an operator that maps a world (a record of all *)
(* the objects' fields) to the world after the call, statement by          *)
(* statement; an exception thrown by a statement leaves the world as it    *)
(* was at the throw and sets `err`.  Each action of the model applies one  *)
(* method and stores the resulting world in the variables.                 *)
(*                                                                         *)
(* Array positions are those of JavaScript: 0-based, -1 for "not found".   *)
(* Zoom is measured in units of 0.25 (zoom 1.0 is the number 4).           *)
(***************************************************************************)
EXTENDS Integers, Sequences, FiniteSets, TLC

\* ------------------------------------------------------------------ bounds
\* Number of Scene objects the caller and loadConfig draw from.
NumScenes == 3
\* Longest scene list a Stage is driven to where the order of the list is
\* what is examined.
MaxLen == 3
\* Number of scenes the caller adds, and the longest scene list it builds,
\* where the order of the list is not what is examined.
MaxTracked == 2

\* --------------------------------------------------------------- constants
\* view/constants; zoom in units of 0.25
CANVAS_WIDTH == 854
CANVAS_HEIGHT == 480
ZoomDefault == 4
ZoomStep == 1
ZoomMax == 4
ZoomMin == 1

StageIds == {1, 2}
SceneIds == 1 .. NumScenes
\* null, as the value of a scene's stage reference
Null == 0
\* the index argument of addScene when it is omitted (undefined)
NoIndex == -1
\* a resource that does not exist yet (undefined); an existing one is
\* modelled by its size
Absent == <<>>

defaultProperties ==
  [width |-> CANVAS_WIDTH, height |-> CANVAS_HEIGHT, zoom |-> ZoomDefault,
   backgroundColor |-> "#000000"]

\* ----------------------------------------------------------- utils/array
Max(a, b) == IF a > b THEN a ELSE b
Min(a, b) == IF a < b THEN a ELSE b

\* the element at the 0-based position i
At(array, i) == array[i + 1]

\* Array.prototype.indexOf: the first position of obj, -1 when absent
indexOf(array, obj) ==
  IF \E i \in 1 .. Len(array) : array[i] = obj
  THEN (CHOOSE i \in 1 .. Len(array) :
          /\ array[i] = obj
          /\ \A j \in 1 .. (i - 1) : array[j] # obj) - 1
  ELSE -1

\* Array.prototype.push
push(array, obj) == Append(array, obj)

\* insert(array, index, obj): array.splice(index, 0, obj)
insert(array, index, obj) ==
  LET start == IF index < 0 THEN Max(Len(array) + index, 0)
               ELSE Min(index, Len(array))
  IN SubSeq(array, 1, start) \o <<obj>> \o SubSeq(array, start + 1, Len(array))

\* remove(array, obj): splice out the first occurrence of obj, if any
remove(array, obj) ==
  LET index == indexOf(array, obj)
  IN IF index # -1
     THEN SubSeq(array, 1, index) \o SubSeq(array, index + 2, Len(array))
     ELSE array

\* swap(array, index, newIndex): exchange two positions; a no-op when either
\* position is out of range or both are the same
swap(array, index, newIndex) ==
  IF /\ index # newIndex
     /\ index > -1 /\ index < Len(array)
     /\ newIndex > -1 /\ newIndex < Len(array)
  THEN [array EXCEPT ![index + 1] = At(array, newIndex),
                     ![newIndex + 1] = At(array, index)]
  ELSE array

\* ------------------------------------------------------------------ state
VARIABLES
  stages,        \* the Stage objects that were constructed
  scenes,        \* scenes[S]: the scene list of Stage S
  changed,       \* changed[S]: the dirty flag of Stage S
  properties,    \* properties[S]: {width, height, zoom, backgroundColor}
  initialized,   \* initialized[S]
  resources,     \* resources[S]: renderer, composer, buffers, backgroundColor
  scene,         \* scene[s]: the fields of Scene s
  displayCount,  \* the process-wide display counter of core/Display
  op,            \* the last call: method name, receiver and arguments
  ret,           \* what the last call returned
  err,           \* the error the last call raised or reported, "" when none
  calls,         \* the calls the last call made on its collaborators, in order
  exported       \* the record toJSON() returned last, as its caller holds it

vars == <<stages, scenes, changed, properties, initialized, resources, scene,
          displayCount, op, ret, err, calls, exported>>

\* the program state without the record of the last call
stateVars == <<stages, scenes, changed, properties, initialized, resources,
               scene, displayCount>>

\* resources of a Stage before init: every field undefined
NoResources ==
  [renderer |-> Absent, composer |-> Absent, canvasBuffer |-> Absent,
   glBuffer |-> Absent, backgroundColor |-> "undefined"]

\* a size, as one value
Size(width, height) == <<width, height>>

\* new Scene(properties): detached, clean, with both stage hooks
NewScene(enabled) ==
  [stage |-> Null, changed |-> FALSE, enabled |-> enabled, hooks |-> TRUE,
   size |-> Size(CANVAS_WIDTH, CANVAS_HEIGHT), elements |-> <<>>]

\* the world the next call starts in
World ==
  [scenes |-> scenes, changed |-> changed, properties |-> properties,
   initialized |-> initialized, resources |-> resources, scene |-> scene,
   displayCount |-> displayCount, ret |-> <<"undefined">>, err |-> "",
   calls |-> <<>>]

\* return values
RetUndefined == <<"undefined">>
RetBool(b) == <<"bool", b>>
RetScene(s) == <<"scene", s>>

\* a statement after a throw is not executed and the call returns no value
Throw(w, e) == [w EXCEPT !.err = e, !.ret = RetUndefined]
Call(w, c) == [w EXCEPT !.calls = Append(@, c)]

\* ------------------------------------------------- core/Scene, as used here
\* scene.hasChanges()
sceneHasChanges(w, s) == w.scene[s].changed

\* scene.resetChanges()
sceneResetChanges(w, s) == [w EXCEPT !.scene[s].changed = FALSE]

\* scene.setSize(width, height)
sceneSetSize(w, s, width, height) ==
  Call([w EXCEPT !.scene[s].size = Size(width, height)],
       <<"scene.setSize", s, width, height>>)

\* scene.addToStage(stage): the attach hook; the record keeps the stage
\* reference the hook finds in scene.stage
sceneAddToStage(w, s, S) ==
  Call(w, <<"scene.addToStage", s, S, w.scene[s].stage>>)

\* scene.removeFromStage(stage): the detach hook, recorded likewise
sceneRemoveFromStage(w, s, S) ==
  Call(w, <<"scene.removeFromStage", s, S, w.scene[s].stage>>)

\* scene.addElement(element)
sceneAddElement(w, s, element) ==
  [w EXCEPT !.scene[s].elements = Append(@, element),
            !.scene[s].changed = TRUE]

\* scene.removeElement(element): the element leaves the scene, which is dirty
\* afterwards
sceneRemoveElement(w, s, element) ==
  Call([w EXCEPT !.scene[s].elements = remove(@, element),
                 !.scene[s].changed = TRUE],
       <<"scene.removeElement", s, element, 0>>)

\* ------------------------------------------------------------ core/Display
\* Display.update(properties): assign the provided keys that differ, mark the
\* display dirty when one did, return whether one did
displayUpdate(w, S, props) ==
  LET old == w.properties[S]
      differs == \E k \in DOMAIN props : props[k] # old[k]
      new == [k \in DOMAIN old |-> IF k \in DOMAIN props THEN props[k] ELSE old[k]]
  IN [w EXCEPT !.properties[S] = new,
               !.changed[S] = IF differs THEN TRUE ELSE @,
               !.ret = RetBool(differs)]

\* resetDisplayCount()
resetDisplayCount(w) == [w EXCEPT !.displayCount = 0]

\* --------------------------------------------------------------- Stage
\* events.emit(name)
emit(w, name) == Call(w, <<name, 0, 0, 0>>)

\* the allocations of init, in the order of the code; each constructor may
\* throw (no WebGL context, out of memory), "none" is the run where none does
Allocations ==
  <<"renderer", "composer", "canvasBuffer", "glBuffer", "backgroundColor">>
Failures == {"none"} \cup {Allocations[i] : i \in DOMAIN Allocations}

\* the allocations that ran before the one that fails
Allocated(fail) ==
  {Allocations[i] : i \in {j \in DOMAIN Allocations :
                             \A k \in 1 .. j : Allocations[k] # fail}}

\* init that raises the flag before it allocates
initFlagFirst(w, S, fail) ==
  IF w.initialized[S] THEN [w EXCEPT !.ret = RetUndefined]
  ELSE LET p == w.properties[S]
           size == Size(p.width, p.height)
           fresh == [renderer |-> size, composer |-> size,
                     canvasBuffer |-> size, glBuffer |-> size,
                     backgroundColor |-> p.backgroundColor]
           made == [k \in DOMAIN fresh |->
                      IF k \in Allocated(fail) THEN fresh[k]
                      ELSE w.resources[S][k]]
           w1 == [w EXCEPT !.initialized[S] = TRUE, !.resources[S] = made]
       IN IF fail # "none" THEN Throw(w1, "Error")
          ELSE [w1 EXCEPT !.ret = RetUndefined]

\* Stage.init(canvas): a field is assigned when its constructor returned; the
\* first constructor that throws ends the call
init(w, S, fail) ==
  IF w.initialized[S] THEN [w EXCEPT !.ret = RetUndefined]
  ELSE LET p == w.properties[S]
           size == Size(p.width, p.height)
           fresh == [renderer |-> size, composer |-> size,
                     canvasBuffer |-> size, glBuffer |-> size,
                     backgroundColor |-> p.backgroundColor]
           made == [k \in DOMAIN fresh |->
                      IF k \in Allocated(fail) THEN fresh[k]
                      ELSE w.resources[S][k]]
           w1 == [w EXCEPT !.resources[S] = made]
       IN IF fail # "none" THEN Throw(w1, "Error")
          ELSE [w1 EXCEPT !.initialized[S] = TRUE, !.ret = RetUndefined]

\* this.scenes.forEach(scene => scene.setSize(width, height)), from position i
RECURSIVE setSizeScenes(_, _, _, _, _)
setSizeScenes(w, array, i, width, height) ==
  IF i >= Len(array) THEN w
  ELSE setSizeScenes(sceneSetSize(w, At(array, i), width, height),
                     array, i + 1, width, height)

\* setSize that notifies before it resizes the Composer and the buffers
setSizeEmitFirst(w, S, width, height) ==
  LET size == Size(width, height)
      w1 == emit(setSizeScenes(w, w.scenes[S], 0, width, height), "stage-resize")
      r == w1.resources[S]
  IN IF r.composer = Absent \/ r.canvasBuffer = Absent \/ r.glBuffer = Absent
     THEN Throw(w1, "TypeError")
     ELSE [w1 EXCEPT !.resources[S].composer = size,
                     !.resources[S].canvasBuffer = size,
                     !.resources[S].glBuffer = size,
                     !.calls = @ \o <<<<"composer.setSize", S, width, height>>,
                                      <<"canvasBuffer.setSize", S, width, height>>,
                                      <<"glBuffer.setSize", S, width, height>>>>,
                     !.ret = RetUndefined]

\* the composer and the two buffers, in the order setSize resizes them
Backing == <<"composer", "canvasBuffer", "glBuffer">>
BackingCall == [composer |-> "composer.setSize",
                canvasBuffer |-> "canvasBuffer.setSize",
                glBuffer |-> "glBuffer.setSize"]

\* this.composer.setSize, this.canvasBuffer.setSize, this.glBuffer.setSize
\* from position i of Backing, then events.emit('stage-resize'); a field
\* that init has not assigned is undefined and the call on it throws
RECURSIVE setSizeBacking(_, _, _, _, _)
setSizeBacking(w, S, i, width, height) ==
  IF i > Len(Backing)
  THEN emit([w EXCEPT !.ret = RetUndefined], "stage-resize")
  ELSE IF w.resources[S][Backing[i]] = Absent THEN Throw(w, "TypeError")
  ELSE setSizeBacking(
         Call([w EXCEPT !.resources[S][Backing[i]] = Size(width, height)],
              <<BackingCall[Backing[i]], S, width, height>>),
         S, i + 1, width, height)

\* Stage.setSize(width, height): the scenes, the composer, the two buffers,
\* the notification
setSize(w, S, width, height) ==
  setSizeBacking(setSizeScenes(w, w.scenes[S], 0, width, height),
                 S, 1, width, height)

\* Stage.update(properties)
update(w, S, props) ==
  LET w1 == displayUpdate(w, S, props)
      didChange == w1.ret[2]
      w2 == IF didChange /\ ("width" \in DOMAIN props \/ "height" \in DOMAIN props)
            THEN setSize(w1, S, w1.properties[S].width, w1.properties[S].height)
            ELSE w1
      w3 == IF w2.err # "" THEN w2
            ELSE IF didChange /\ "backgroundColor" \in DOMAIN props
              THEN IF w2.resources[S].backgroundColor = "undefined"
                   THEN Throw(w2, "TypeError")
                   ELSE [w2 EXCEPT !.resources[S].backgroundColor =
                                      props.backgroundColor]
            ELSE w2
  IN IF w3.err # "" THEN w3 ELSE [w3 EXCEPT !.ret = RetBool(didChange)]

\* Stage.getScene(id): the first scene of the list with that id; the id of a
\* scene is its identity here
getScene(w, S, id) ==
  LET array == w.scenes[S]
  IN IF \E i \in 1 .. Len(array) : array[i] = id
     THEN RetScene(At(array, indexOf(array, id)))
     ELSE RetUndefined

\* addScene whose test of the index is `if (index)`
addSceneTruthyIndex(w, S, s, index) ==
  LET w1 == IF index # NoIndex /\ index # 0
            THEN [w EXCEPT !.scenes[S] = insert(@, index, s)]
            ELSE [w EXCEPT !.scenes[S] = push(@, s)]
      w2 == [w1 EXCEPT !.scene[s].stage = S]
      w3 == IF w2.scene[s].hooks THEN sceneAddToStage(w2, s, S) ELSE w2
  IN [w3 EXCEPT !.changed[S] = TRUE, !.ret = RetScene(s)]

\* Stage.addScene(scene, index)
addScene(w, S, s, index) ==
  LET w1 == IF index # NoIndex
            THEN [w EXCEPT !.scenes[S] = insert(@, index, s)]
            ELSE [w EXCEPT !.scenes[S] = push(@, s)]
      w2 == [w1 EXCEPT !.scene[s].stage = S]
      w3 == IF w2.scene[s].hooks THEN sceneAddToStage(w2, s, S) ELSE w2
  IN [w3 EXCEPT !.changed[S] = TRUE, !.ret = RetScene(s)]

\* Stage.removeScene(scene)
removeScene(w, S, s) ==
  LET w1 == [w EXCEPT !.scenes[S] = remove(@, s)]
      w2 == [w1 EXCEPT !.scene[s].stage = Null]
  IN IF ~w2.scene[s].hooks THEN Throw(w2, "TypeError")
     ELSE [sceneRemoveFromStage(w2, s, S) EXCEPT !.changed[S] = TRUE,
                                                 !.ret = RetUndefined]

\* what removeElement is handed: a Scene, or an element with the scene it
\* refers to (Null when it refers to none)
SceneObject(s) == [kind |-> "scene", scene |-> s, name |-> ""]
ElementObject(s, name) == [kind |-> "element", scene |-> s, name |-> name]

\* Stage.removeElement(obj)
removeElement(w, S, obj) ==
  IF obj.kind = "scene" THEN removeScene(w, S, obj.scene)
  ELSE IF obj.scene = Null THEN Throw(w, "TypeError")
  ELSE IF getScene(w, S, obj.scene) # RetUndefined
    THEN [sceneRemoveElement(w, obj.scene, obj.name) EXCEPT !.ret = RetUndefined]
  ELSE [w EXCEPT !.ret = RetUndefined]

\* shiftScene that takes every shift by a distance other than 0 for a move
shiftSceneByDistance(w, S, s, i) ==
  LET index == indexOf(w.scenes[S], s)
      w1 == [w EXCEPT !.scenes[S] = swap(@, index, index + i)]
      moved == i # 0
  IN [w1 EXCEPT !.changed[S] = moved, !.ret = RetBool(moved)]

\* Stage.shiftScene(scene, i)
shiftScene(w, S, s, i) ==
  LET index == indexOf(w.scenes[S], s)
      w1 == [w EXCEPT !.scenes[S] = swap(@, index, index + i)]
      moved == indexOf(w1.scenes[S], s) # index
  IN [w1 EXCEPT !.changed[S] = moved, !.ret = RetBool(moved)]

\* this.scenes.forEach(scene => this.removeScene(scene)) on the list itself,
\* from position i: the list shrinks under the loop
RECURSIVE removeScenesLive(_, _, _)
removeScenesLive(w, S, i) ==
  IF i >= Len(w.scenes[S]) \/ w.err # "" THEN w
  ELSE removeScenesLive(removeScene(w, S, At(w.scenes[S], i)), S, i + 1)

\* [...this.scenes].forEach(scene => this.removeScene(scene)), from position
\* i of the copy
RECURSIVE removeScenes(_, _, _, _)
removeScenes(w, S, copy, i) ==
  IF i >= Len(copy) \/ w.err # "" THEN w
  ELSE removeScenes(removeScene(w, S, At(copy, i)), S, copy, i + 1)

\* clearScenes that loops over the list itself, not over a copy
clearScenesLiveList(w, S) ==
  LET w1 == removeScenesLive(w, S, 0)
  IN IF w1.err # "" THEN w1
     ELSE [resetDisplayCount(w1) EXCEPT !.changed[S] = TRUE,
                                        !.ret = RetUndefined]

\* Stage.clearScenes()
clearScenes(w, S) ==
  LET w1 == removeScenes(w, S, w.scenes[S], 0)
  IN IF w1.err # "" THEN w1
     ELSE [resetDisplayCount(w1) EXCEPT !.changed[S] = TRUE,
                                        !.ret = RetUndefined]

\* Stage.hasScenes()
hasScenes(w, S) == Len(w.scenes[S]) > 0

\* the forEach of Stage.hasChanges, from position i with the local `changes`
RECURSIVE hasChangesScan(_, _, _, _)
hasChangesScan(w, array, i, changes) ==
  IF i >= Len(array) THEN changes
  ELSE hasChangesScan(w, array, i + 1,
         IF ~changes /\ sceneHasChanges(w, At(array, i)) THEN TRUE ELSE changes)

\* hasChanges that looks at the flag of the Stage alone
hasChangesOwnFlag(w, S) == w.changed[S]

\* Stage.hasChanges()
hasChanges(w, S) ==
  IF w.changed[S] THEN TRUE
  ELSE hasChangesScan(w, w.scenes[S], 0, FALSE)

\* the forEach of Stage.resetChanges, from position i
RECURSIVE resetChangesScenes(_, _, _)
resetChangesScenes(w, array, i) ==
  IF i >= Len(array) THEN w
  ELSE resetChangesScenes(sceneResetChanges(w, At(array, i)), array, i + 1)

\* resetChanges that clears the flag of the Stage alone
resetChangesOwnFlag(w, S) ==
  [w EXCEPT !.changed[S] = FALSE, !.ret = RetUndefined]

\* Stage.resetChanges()
resetChanges(w, S) ==
  [resetChangesScenes([w EXCEPT !.changed[S] = FALSE], w.scenes[S], 0)
     EXCEPT !.ret = RetUndefined]

\* setZoom whose upper test is `zoom <= 1.0`
setZoomPastMax(w, S, val) ==
  LET zoom == w.properties[S].zoom
      w1 == IF val > 0
            THEN IF zoom <= ZoomMax
                 THEN update(w, S, [x \in {"zoom"} |-> zoom + ZoomStep]) ELSE w
            ELSE IF val < 0
            THEN IF zoom > ZoomMin
                 THEN update(w, S, [x \in {"zoom"} |-> zoom - ZoomStep]) ELSE w
            ELSE update(w, S, [x \in {"zoom"} |-> ZoomMax])
  IN IF w1.err # "" THEN w1
     ELSE [emit(w1, "zoom") EXCEPT !.ret = RetUndefined]

\* Stage.setZoom(val)
setZoom(w, S, val) ==
  LET zoom == w.properties[S].zoom
      w1 == IF val > 0
            THEN IF zoom < ZoomMax
                 THEN update(w, S, [x \in {"zoom"} |-> zoom + ZoomStep]) ELSE w
            ELSE IF val < 0
            THEN IF zoom > ZoomMin
                 THEN update(w, S, [x \in {"zoom"} |-> zoom - ZoomStep]) ELSE w
            ELSE update(w, S, [x \in {"zoom"} |-> ZoomMax])
  IN IF w1.err # "" THEN w1
     ELSE [emit(w1, "zoom") EXCEPT !.ret = RetUndefined]

\* scene.render(data): returns the buffer of the scene, named by the scene
sceneRender(w, s, data) == Call(w, <<"scene.render", s, data, 0>>)

\* Stage.renderScene(scene, data): the buffer scene.render returned is blended
\* with {...scene.properties}, the properties of the scene as they are then;
\* before init this.composer is undefined and the blend throws after the
\* scene was rendered
renderScene(w, S, s, data) ==
  IF w.resources[S].composer = Absent
  THEN Throw(sceneRender(w, s, data), "TypeError")
  ELSE Call(sceneRender(w, s, data),
            <<"composer.blendBuffer", S, s, w.scene[s].enabled>>)

\* scenes.forEach(scene => { if (scene.properties.enabled) ... }), from i
RECURSIVE renderScenes(_, _, _, _, _)
renderScenes(w, S, array, i, data) ==
  IF i >= Len(array) THEN w
  ELSE LET s == At(array, i)
       IN renderScenes(IF w.scene[s].enabled THEN renderScene(w, S, s, data)
                       ELSE w,
                       S, array, i + 1, data)

\* scenes.forEach(scene => this.renderScene(scene, data)), from position i
RECURSIVE renderAllScenes(_, _, _, _, _)
renderAllScenes(w, S, array, i, data) ==
  IF i >= Len(array) THEN w
  ELSE renderAllScenes(renderScene(w, S, At(array, i), data), S, array, i + 1, data)

\* render that blends every scene of the list, enabled or not
renderEveryScene(w, S, data) ==
  LET r == w.resources[S]
  IN IF r.composer = Absent THEN Throw(w, "TypeError")
     ELSE [Call(renderAllScenes(Call(w, <<"composer.clear", S, 1,
                                          r.backgroundColor>>),
                                S, w.scenes[S], 0, data),
                <<"composer.renderToScreen", S, 0, 0>>)
           EXCEPT !.ret = RetUndefined]

\* Stage.render(data): composer.clear(this.backgroundColor, 1), the enabled
\* scenes, composer.renderToScreen(); before init this.composer is undefined
\* and the first call on it throws
render(w, S, data) ==
  LET r == w.resources[S]
  IN IF r.composer = Absent THEN Throw(w, "TypeError")
     ELSE [Call(renderScenes(Call(w, <<"composer.clear", S, 1,
                                       r.backgroundColor>>),
                             S, w.scenes[S], 0, data),
                <<"composer.renderToScreen", S, 0, 0>>)
           EXCEPT !.ret = RetUndefined]

\* the name and the type every Stage carries
StageName == "Stage"
DISPLAY_TYPE_STAGE == "stage"

\* toJSON that hands out the live properties object
toJSONLiveProperties(w, S) ==
  [w EXCEPT !.ret = <<"record",
                      [id |-> S, name |-> StageName, type |-> DISPLAY_TYPE_STAGE,
                       properties |-> w.properties[S]],
                      "live">>]

\* Stage.toJSON(): {id, name, type, properties: {...properties}}; the third
\* component of the result tells which object its `properties` is: "copy",
\* an object of its own, or "live", the object the Stage holds
toJSON(w, S) ==
  [w EXCEPT !.ret = <<"record",
                      [id |-> S, name |-> StageName, type |-> DISPLAY_TYPE_STAGE,
                       properties |-> w.properties[S]],
                      "copy">>]

\* ----------------------------------------------------------- loadConfig
\* the registries 'displays' and 'effects': the component names they export
displayLibrary == {"ImageDisplay", "TextDisplay"}
effectsLibrary == {"BlurEffect"}

\* typeof config
typeOf(config) == IF config.type = "null" THEN "object" ELSE config.type

\* new Scene(properties), as the object `id`
newScene(w, id, props) ==
  [w EXCEPT !.scene[id] = NewScene(props.enabled),
            !.displayCount = @ + 1]

\* loadComponent(lib, component) for the component at position i of a section
loadComponent(w, id, lib, section, i) ==
  LET name == At(section, i)
  IN IF name \in lib
     THEN sceneAddElement(w, id, name)
     ELSE Call(w, <<"logger.warn", id, i, 0>>)

\* section.forEach(component => loadComponent(lib, component)), from position i
RECURSIVE loadComponents(_, _, _, _, _)
loadComponents(w, id, lib, section, i) ==
  IF i >= Len(section) THEN w
  ELSE loadComponents(loadComponent(w, id, lib, section, i), id, lib, section, i + 1)

\* the body of config.scenes.forEach for the scene description at position
\* i, whose new Scene is the object fresh[i]
loadScene(w, S, description, id) ==
  LET w1 == newScene(w, id, description.properties)
      w2 == addScene(w1, S, id, NoIndex)
      w3 == loadComponents(w2, id, displayLibrary, description.displays, 0)
  IN loadComponents(w3, id, effectsLibrary, description.effects, 0)

RECURSIVE loadScenes(_, _, _, _, _)
loadScenes(w, S, descriptions, fresh, i) ==
  IF i >= Len(descriptions) THEN w
  ELSE loadScenes(loadScene(w, S, At(descriptions, i), At(fresh, i)),
                  S, descriptions, fresh, i + 1)

\* raiseError(message)
raiseError(w, message) == [w EXCEPT !.err = message]

\* loadConfig that keeps the scenes the Stage has
loadConfigKeepScenes(w, S, config, fresh) ==
  IF typeOf(config) = "object"
  THEN LET w2 == IF config.hasScenes
                 THEN loadScenes(w, S, config.scenes, fresh, 0) ELSE w
           w3 == IF config.hasStage
                 THEN update(w2, S, config.stage)
                 ELSE update(w2, S, defaultProperties)
       IN IF config.type = "null" THEN Throw(w, "TypeError")
          ELSE IF w3.err # "" THEN w3
          ELSE [w3 EXCEPT !.ret = RetUndefined]
  ELSE raiseError(w, "Invalid project data.")

\* Stage.loadConfig(config); fresh are the objects its new Scenes become
loadConfig(w, S, config, fresh) ==
  IF typeOf(config) = "object"
  THEN LET w1 == clearScenes(w, S)
           w2 == IF config.hasScenes
                 THEN loadScenes(w1, S, config.scenes, fresh, 0) ELSE w1
           w3 == IF config.hasStage
                 THEN update(w2, S, config.stage)
                 ELSE update(w2, S, defaultProperties)
       IN IF w1.err # "" THEN w1
          ELSE IF config.type = "null" THEN Throw(w1, "TypeError")
          ELSE IF w3.err # "" THEN w3
          ELSE [w3 EXCEPT !.ret = RetUndefined]
  ELSE raiseError(w, "Invalid project data.")

\* ------------------------------------------------------------------ inputs
\* a partial property record with one key
Prop(k, v) == [x \in {k} |-> v]

\* zoom values handed to update and to loadConfig: 0.25, 1.0 and 1.25
ZoomInputs == {ZoomMin, ZoomMax, ZoomMax + ZoomStep}

\* the sizes a stage is given: 1280 x 720 and the default
SizeInputs ==
  {[width |-> 1280, height |-> 720],
   [width |-> CANVAS_WIDTH, height |-> CANVAS_HEIGHT]}

ColorInputs == {Prop("backgroundColor", "#ffffff"),
                Prop("backgroundColor", "#000000")}

ZoomUpdates == {Prop("zoom", z) : z \in ZoomInputs}

\* configurations: the values that are no objects, null, and objects
NotAnObject(type) ==
  [type |-> type, hasScenes |-> FALSE, scenes |-> <<>>, hasStage |-> FALSE,
   stage |-> defaultProperties]

Description(enabled, displays, effects) ==
  [properties |-> [enabled |-> enabled], displays |-> displays,
   effects |-> effects]

ObjectConfig(withScenes, descriptions, withStage, stage) ==
  [type |-> "object", hasScenes |-> withScenes, scenes |-> descriptions,
   hasStage |-> withStage, stage |-> stage]

InvalidConfigs == {NotAnObject(t) : t \in {"number", "string", "undefined"}}
NullConfig == NotAnObject("null")

ValidConfigs ==
  {ObjectConfig(FALSE, <<>>, FALSE, defaultProperties),
   ObjectConfig(TRUE, <<Description(TRUE, <<"TextDisplay", "Missing">>, <<"BlurEffect">>)>>,
                FALSE, defaultProperties),
   ObjectConfig(TRUE, <<Description(FALSE, <<>>, <<>>), Description(TRUE, <<>>, <<>>)>>,
                TRUE, [defaultProperties EXCEPT !.zoom = ZoomMax + ZoomStep]),
   ObjectConfig(TRUE, <<>>, TRUE, [defaultProperties EXCEPT !.zoom = ZoomMin])}

\* configurations with an unknown display and an unknown effect ahead of known
\* components and of a second scene, with a stage block that names another
\* size, with no stage block, and with no scenes and a stage block that names
\* the zoom alone
LoadedConfigs ==
  {ObjectConfig(TRUE, <<Description(FALSE, <<"Missing", "ImageDisplay">>,
                                    <<"NoEffect", "BlurEffect">>),
                        Description(TRUE, <<"TextDisplay">>, <<>>)>>,
                FALSE, defaultProperties),
   ObjectConfig(TRUE, <<Description(TRUE, <<"TextDisplay", "Missing">>, <<>>)>>,
                TRUE, [defaultProperties EXCEPT !.width = 1280, !.height = 720]),
   ObjectConfig(FALSE, <<>>, TRUE, Prop("zoom", ZoomMin))}

\* the sequences of n distinct scene objects of the set free
RECURSIVE FreshSeqs(_, _)
FreshSeqs(free, n) ==
  IF n = 0 THEN {<<>>}
  ELSE UNION {{<<id>> \o rest : rest \in FreshSeqs(free \ {id}, n - 1)} : id \in free}

\* the objects no stage refers to and that refer to no stage: a new Scene may
\* become any of them
Free == {s \in SceneIds : /\ scene[s].stage = Null
                          /\ \A S \in StageIds : indexOf(scenes[S], s) = -1}

\* ------------------------------------------------------------------ actions
\* the fields of the Stages and the scenes, and the record of the call
CommitState(w, o) ==
  /\ scenes' = w.scenes
  /\ changed' = w.changed
  /\ properties' = w.properties
  /\ initialized' = w.initialized
  /\ resources' = w.resources
  /\ scene' = w.scene
  /\ displayCount' = w.displayCount
  /\ ret' = w.ret
  /\ err' = w.err
  /\ calls' = w.calls
  /\ op' = o
  /\ UNCHANGED stages

\* a record whose `properties` is the live object of its Stage shows what the
\* Stage writes there; a record with an object of its own does not
Commit(w, o) ==
  /\ CommitState(w, o)
  /\ exported' = IF exported.object = "live"
                 THEN [exported EXCEPT !.record.properties =
                                          w.properties[exported.stage]]
                 ELSE exported

\* a call that returns a value and assigns nothing
Query(value, o) == Commit([World EXCEPT !.ret = value], o)

\* no toJSON() yet
NoRecord ==
  [stage |-> Null, object |-> "none",
   record |-> [id |-> Null, name |-> "", type |-> "", properties |-> <<>>]]

Init ==
  /\ stages = {1}
  /\ scenes = [S \in StageIds |-> <<>>]
  /\ changed = [S \in StageIds |-> FALSE]
  /\ properties = [S \in StageIds |-> defaultProperties]
  /\ initialized = [S \in StageIds |-> FALSE]
  /\ resources = [S \in StageIds |-> NoResources]
  /\ scene = [s \in SceneIds |-> NewScene(TRUE)]
  /\ displayCount = NumScenes
  /\ op = [name |-> "new"]
  /\ ret = RetUndefined
  /\ err = ""
  /\ calls = <<>>
  /\ exported = NoRecord

DoInit(S, fail) ==
  Commit(init(World, S, fail), [name |-> "init", stage |-> S, fail |-> fail])

Update(S, props) ==
  Commit(update(World, S, props), [name |-> "update", stage |-> S, props |-> props])

SetSize(S, size) ==
  Commit(setSize(World, S, size.width, size.height),
         [name |-> "setSize", stage |-> S, size |-> size])

GetScene(S, id) ==
  Query(getScene(World, S, id), [name |-> "getScene", stage |-> S, id |-> id])

AddScene(S, s, index) ==
  Commit(addScene(World, S, s, index),
         [name |-> "addScene", stage |-> S, scene |-> s, index |-> index])

RemoveScene(S, s) ==
  Commit(removeScene(World, S, s),
         [name |-> "removeScene", stage |-> S, scene |-> s])

ShiftScene(S, s, i) ==
  Commit(shiftScene(World, S, s, i),
         [name |-> "shiftScene", stage |-> S, scene |-> s, i |-> i])

ClearScenes(S) ==
  Commit(clearScenes(World, S), [name |-> "clearScenes", stage |-> S])

HasScenes(S) ==
  Query(RetBool(hasScenes(World, S)), [name |-> "hasScenes", stage |-> S])

HasChanges(S) ==
  Query(RetBool(hasChanges(World, S)), [name |-> "hasChanges", stage |-> S])

ResetChanges(S) ==
  Commit(resetChanges(World, S), [name |-> "resetChanges", stage |-> S])

SetZoom(S, val) ==
  Commit(setZoom(World, S, val), [name |-> "setZoom", stage |-> S, val |-> val])

LoadConfig(S, config) ==
  \E fresh \in FreshSeqs(Free, Len(config.scenes)) :
    Commit(loadConfig(World, S, config, fresh),
           [name |-> "loadConfig", stage |-> S, config |-> config])

RemoveElement(S, obj) ==
  Commit(removeElement(World, S, obj),
         [name |-> "removeElement", stage |-> S, obj |-> obj])

RenderScene(S, s, data) ==
  Commit(renderScene(World, S, s, data),
         [name |-> "renderScene", stage |-> S, scene |-> s, data |-> data])

Render(S, data) ==
  Commit(render(World, S, data), [name |-> "render", stage |-> S, data |-> data])

ToJSON(S) ==
  LET w == toJSON(World, S)
  IN /\ CommitState(w, [name |-> "toJSON", stage |-> S])
     /\ exported' = [stage |-> S, object |-> w.ret[3], record |-> w.ret[2]]

\* the caller writes record.properties[k] = v in the record toJSON() returned;
\* the write lands in the object that `properties` of the record is
RecordWrite(k, v) ==
  /\ exported.object # "none"
  /\ exported' = [exported EXCEPT !.record.properties[k] = v]
  /\ properties' = IF exported.object = "live"
                   THEN [properties EXCEPT ![exported.stage][k] = v]
                   ELSE properties
  /\ op' = [name |-> "record.write", key |-> k, value |-> v]
  /\ ret' = RetUndefined
  /\ err' = ""
  /\ calls' = <<>>
  /\ UNCHANGED <<stages, scenes, changed, initialized, resources, scene,
                 displayCount>>

\* scene.update({enabled}): the scene is switched on or off through its own
\* interface and is dirty when that changed it
SceneSetEnabled(s, enabled) ==
  Commit([World EXCEPT !.scene[s].enabled = enabled,
                       !.scene[s].changed = IF scene[s].enabled # enabled
                                            THEN TRUE ELSE @],
         [name |-> "scene.update", scene |-> s, enabled |-> enabled])

\* a scene is edited through its own interface (an element is changed; the
\* elements' own properties are not part of the model), which leaves the
\* scene dirty
SceneEdit(s) ==
  Commit([World EXCEPT !.scene[s].changed = TRUE],
         [name |-> "scene.edit", scene |-> s])

\* ----------------------------------------------------------- specifications
\* the arguments the calls are given
IndexInputs == {NoIndex} \cup (0 .. MaxLen)
ShiftInputs == -2 .. 2
ZoomDirections == {-1, 0, 1}
Configs == InvalidConfigs \cup {NullConfig} \cup ValidConfigs
\* the configurations that describe no scene
PlainConfigs == {config \in Configs : Len(config.scenes) = 0}
\* the scenes the caller hands over where the order is not examined
TrackedScenes == 1 .. MaxTracked

\* the frame data render is given
FrameData == {1, 2}

\* every operation on every constructed Stage
Next ==
  \/ \E S \in stages : DoInit(S, "none")
  \/ \E S \in stages, props \in ZoomUpdates \cup ColorInputs \cup SizeInputs : Update(S, props)
  \/ \E S \in stages, size \in SizeInputs : SetSize(S, size)
  \/ \E S \in stages, s \in SceneIds : GetScene(S, s)
  \/ \E S \in stages, s \in SceneIds, index \in IndexInputs :
       Len(scenes[S]) < MaxLen /\ AddScene(S, s, index)
  \/ \E S \in stages, s \in SceneIds : RemoveScene(S, s)
  \/ \E S \in stages, s \in SceneIds, i \in ShiftInputs : ShiftScene(S, s, i)
  \/ \E S \in stages : ClearScenes(S)
  \/ \E S \in stages : HasScenes(S)
  \/ \E S \in stages : HasChanges(S)
  \/ \E S \in stages : ResetChanges(S)
  \/ \E S \in stages, val \in ZoomDirections : SetZoom(S, val)
  \/ \E S \in stages, config \in Configs : LoadConfig(S, config)
  \/ \E s \in SceneIds : SceneEdit(s)
  \/ \E s \in SceneIds, enabled \in BOOLEAN : SceneSetEnabled(s, enabled)
  \/ \E S \in stages, s \in SceneIds : RemoveElement(S, SceneObject(s))
  \/ \E S \in stages, s \in SceneIds, i \in 1 .. MaxLen :
       /\ i <= Len(scene[s].elements)
       /\ RemoveElement(S, ElementObject(s, scene[s].elements[i]))
  \/ \E S \in stages, s \in SceneIds, data \in FrameData : RenderScene(S, s, data)
  \/ \E S \in stages, data \in FrameData : Render(S, data)
  \/ \E S \in stages : ToJSON(S)
  \/ \E props \in ZoomUpdates \cup ColorInputs : \E k \in DOMAIN props :
       RecordWrite(k, props[k])

Spec == Init /\ [][Next]_vars

\* The specifications below are Spec with fewer operations or arguments, so
\* that each part of the Stage is explored in full.

\* the scene list of one Stage: every way to add, remove, reorder and look
\* up scenes
NextScenes ==
  \/ \E S \in stages, s \in SceneIds : GetScene(S, s)
  \/ \E S \in stages, s \in SceneIds, index \in IndexInputs :
       Len(scenes[S]) < MaxLen /\ AddScene(S, s, index)
  \/ \E S \in stages, s \in SceneIds : RemoveScene(S, s)
  \/ \E S \in stages, s \in SceneIds, i \in ShiftInputs : ShiftScene(S, s, i)
  \/ \E S \in stages : ClearScenes(S)
  \/ \E S \in stages : HasScenes(S)

SpecScenes == Init /\ [][NextScenes]_vars

\* change tracking of one Stage: the operations that set or clear a dirty
\* flag of the Stage or of a scene
NextChanges ==
  \/ \E S \in stages, s \in TrackedScenes : Len(scenes[S]) < MaxTracked /\ AddScene(S, s, NoIndex)
  \/ \E S \in stages, s \in TrackedScenes : RemoveScene(S, s)
  \/ \E S \in stages, s \in TrackedScenes, i \in {-1, 0, 1} : ShiftScene(S, s, i)
  \/ \E S \in stages : ClearScenes(S)
  \/ \E S \in stages : HasChanges(S)
  \/ \E S \in stages : ResetChanges(S)
  \/ \E S \in stages, z \in {ZoomMax, ZoomMax - ZoomStep} : Update(S, Prop("zoom", z))
  \/ \E S \in stages, config \in PlainConfigs : LoadConfig(S, config)
  \/ \E s \in TrackedScenes : SceneEdit(s)
  \/ \E S \in stages, s \in TrackedScenes : RemoveElement(S, SceneObject(s))

SpecChanges == Init /\ [][NextChanges]_vars

\* the properties of one Stage, before and after init
NextZoom ==
  \/ \E S \in stages : DoInit(S, "none")
  \/ \E S \in stages, props \in ZoomUpdates \cup ColorInputs \cup SizeInputs : Update(S, props)
  \/ \E S \in stages, size \in SizeInputs : SetSize(S, size)
  \/ \E S \in stages, val \in ZoomDirections : SetZoom(S, val)
  \/ \E S \in stages, config \in PlainConfigs : LoadConfig(S, config)

SpecZoom == Init /\ [][NextZoom]_vars

\* loading configurations into a Stage that has scenes and properties
NextConfig ==
  \/ \E S \in stages, s \in TrackedScenes : Len(scenes[S]) < MaxTracked /\ AddScene(S, s, NoIndex)
  \/ \E S \in stages, val \in ZoomDirections : SetZoom(S, val)
  \/ \E S \in stages, config \in Configs : LoadConfig(S, config)
  \/ \E S \in stages : ResetChanges(S)
  \/ \E S \in stages, s \in SceneIds, i \in 1 .. MaxLen :
       /\ i <= Len(scene[s].elements)
       /\ RemoveElement(S, ElementObject(s, scene[s].elements[i]))

SpecConfig == Init /\ [][NextConfig]_vars

\* scenes added by the caller, init, and configurations loaded
NextLoad ==
  \/ \E S \in stages : DoInit(S, "none")
  \/ \E S \in stages, s \in TrackedScenes :
       Len(scenes[S]) < MaxTracked /\ AddScene(S, s, NoIndex)
  \/ \E S \in stages, config \in LoadedConfigs : LoadConfig(S, config)

SpecLoad == Init /\ [][NextLoad]_vars

\* init with every outcome of its allocations, between resizes and property
\* updates
NextInit ==
  \/ \E S \in stages, fail \in Failures : DoInit(S, fail)
  \/ \E S \in stages, size \in SizeInputs : SetSize(S, size)
  \/ \E S \in stages, props \in ColorInputs \cup SizeInputs : Update(S, props)

SpecInit == Init /\ [][NextInit]_vars

\* records taken with toJSON, written to by their holder, between property
\* updates of the Stage
NextJSON ==
  \/ \E S \in stages : DoInit(S, "none")
  \/ \E S \in stages : ToJSON(S)
  \/ \E props \in ZoomUpdates \cup ColorInputs : \E k \in DOMAIN props :
       RecordWrite(k, props[k])
  \/ \E S \in stages, props \in ZoomUpdates \cup ColorInputs : Update(S, props)
  \/ \E S \in stages, val \in ZoomDirections : SetZoom(S, val)

SpecJSON == Init /\ [][NextJSON]_vars

\* resizes of a Stage with scenes, before init, after an init that failed
\* half-way and after one that succeeded
NextResize ==
  \/ \E S \in stages, fail \in Failures : DoInit(S, fail)
  \/ \E S \in stages, s \in TrackedScenes :
       Len(scenes[S]) < MaxTracked /\ AddScene(S, s, NoIndex)
  \/ \E S \in stages, size \in SizeInputs : SetSize(S, size)

SpecResize == Init /\ [][NextResize]_vars

\* a scene object that defines neither addToStage nor removeFromStage
PlainScene == [NewScene(TRUE) EXCEPT !.hooks = FALSE]

\* one Stage; the first scene object has no hooks, the others are Scenes
InitHooks ==
  /\ stages = {1}
  /\ scenes = [S \in StageIds |-> <<>>]
  /\ changed = [S \in StageIds |-> FALSE]
  /\ properties = [S \in StageIds |-> defaultProperties]
  /\ initialized = [S \in StageIds |-> FALSE]
  /\ resources = [S \in StageIds |-> NoResources]
  /\ scene = [s \in SceneIds |-> IF s = 1 THEN PlainScene ELSE NewScene(TRUE)]
  /\ displayCount = NumScenes
  /\ op = [name |-> "new"]
  /\ ret = RetUndefined
  /\ err = ""
  /\ calls = <<>>
  /\ exported = NoRecord

\* scenes with and without hooks are added, removed and cleared
NextHooks ==
  \/ \E S \in stages, s \in SceneIds, index \in {NoIndex, 0} :
       Len(scenes[S]) < MaxTracked /\ AddScene(S, s, index)
  \/ \E S \in stages, s \in SceneIds : RemoveScene(S, s)
  \/ \E S \in stages : ClearScenes(S)
  \/ \E S \in stages : ResetChanges(S)

SpecHooks == InitHooks /\ [][NextHooks]_vars

\* init, scenes added, switched on and off, the background colour changed,
\* and frames rendered
NextRender ==
  \/ \E S \in stages : DoInit(S, "none")
  \/ \E S \in stages, s \in TrackedScenes :
       Len(scenes[S]) < MaxTracked /\ AddScene(S, s, NoIndex)
  \/ \E s \in TrackedScenes, enabled \in BOOLEAN : SceneSetEnabled(s, enabled)
  \/ \E S \in stages, props \in ColorInputs : Update(S, props)
  \/ \E S \in stages, data \in FrameData : Render(S, data)
  \/ \E S \in stages, s \in TrackedScenes, data \in FrameData :
       RenderScene(S, s, data)

SpecRender == Init /\ [][NextRender]_vars

\* two Stages that are handed the same scenes
InitTwo ==
  /\ stages = StageIds
  /\ scenes = [S \in StageIds |-> <<>>]
  /\ changed = [S \in StageIds |-> FALSE]
  /\ properties = [S \in StageIds |-> defaultProperties]
  /\ initialized = [S \in StageIds |-> FALSE]
  /\ resources = [S \in StageIds |-> NoResources]
  /\ scene = [s \in SceneIds |-> NewScene(TRUE)]
  /\ displayCount = NumScenes
  /\ op = [name |-> "new"]
  /\ ret = RetUndefined
  /\ err = ""
  /\ calls = <<>>
  /\ exported = NoRecord

NextTwo ==
  \/ \E S \in stages, s \in SceneIds : Len(scenes[S]) < MaxTracked /\ AddScene(S, s, NoIndex)
  \/ \E S \in stages, s \in SceneIds : RemoveScene(S, s)
  \/ \E S \in stages : ClearScenes(S)

SpecTwo == InitTwo /\ [][NextTwo]_vars

\* ------------------------------------------------------------------ claims
\* the scenes of the list of S, as a set
Owned(S) == {scenes[S][i] : i \in 1 .. Len(scenes[S])}

\* at least one scene of the list of S reports changes
SomeSceneChanged(S) == \E s \in Owned(S) : scene[s].changed

\* C1: in every reachable state hasChanges() of a Stage is true exactly when
\* its own `changed` flag is set or one of the scenes in its list reports
\* changes, and a call of hasChanges() returns that value and changes no
\* field of the Stage or of a scene.
C1_HasChangesIff ==
  /\ [](\A S \in stages : hasChanges(World, S) <=> (changed[S] \/ SomeSceneChanged(S)))
  /\ [][op'.name = "hasChanges" =>
          /\ ret' = RetBool(changed[op'.stage] \/ SomeSceneChanged(op'.stage))
          /\ UNCHANGED stateVars]_vars

\* hasChanges() was called on a clean Stage whose first scene is clean and
\* whose second scene is dirty, and it returned true
C1_Witness ==
  /\ op.name = "hasChanges" /\ ret = RetBool(TRUE)
  /\ ~changed[1] /\ Len(scenes[1]) = 2
  /\ ~scene[scenes[1][1]].changed /\ scene[scenes[1][2]].changed

\* the step mutates the Stage S or a scene of its list: a scene is added,
\* removed or edited, the list is cleared or reloaded, the list or a property
\* changes
Mutation(S) ==
  \/ op'.name \in {"addScene", "removeScene", "clearScenes", "removeElement"}
     /\ op'.stage = S
  \/ op'.name = "loadConfig" /\ op'.stage = S /\ typeOf(op'.config) = "object"
  \/ op'.name = "scene.edit" /\ op'.scene \in Owned(S)
  \/ scenes'[S] # scenes[S]
  \/ properties'[S] # properties[S]

\* C2: right after resetChanges() hasChanges() is false whatever was dirty
\* before, and from a state where hasChanges() is false every step that is
\* no mutation of the Stage or of one of its scenes leaves it false.
C2_ResetClears ==
  [][\A S \in stages :
       /\ (op'.name = "resetChanges" /\ op'.stage = S) => ~hasChanges(World, S)'
       /\ (~hasChanges(World, S) /\ ~Mutation(S)) => ~hasChanges(World, S)']_vars

\* resetChanges() has run on a Stage with two different scenes, none of
\* which is dirty any more
C2_Witness ==
  /\ op.name = "resetChanges"
  /\ Len(scenes[1]) = 2 /\ scenes[1][1] # scenes[1][2]
  /\ ~hasChanges(World, 1)

\* C3: loadConfig with an input that is no well-formed object (a number, a
\* string, undefined, null) reports 'Invalid project data.' and leaves the
\* scene list, every scene, the properties and the dirty flag as they were.
C3_InvalidConfigNoMutation ==
  [][(op'.name = "loadConfig" /\ op'.config.type # "object") =>
       /\ err' = "Invalid project data."
       /\ UNCHANGED <<scenes, scene, properties, changed>>]_vars

\* the zoom values the Stage is meant to take: 0.25, 0.5, 0.75, 1.0
ValidZooms == {1, 2, 3, 4}

\* C4: the zoom of every Stage is one of 0.25, 0.5, 0.75, 1.0 in every
\* reachable state.
C4_ZoomInSet == \A S \in stages : properties[S].zoom \in ValidZooms

\* the zoom of a Stage with zoom z after n calls of setZoom(val)
RECURSIVE ZoomAfter(_, _, _)
ZoomAfter(w, val, n) ==
  IF n = 0 THEN w.properties[1].zoom
  ELSE ZoomAfter(setZoom(w, 1, val), val, n - 1)

ZoomFrom(z, val, n) == ZoomAfter([World EXCEPT !.properties[1].zoom = z], val, n)

\* C5: from a zoom of 0.25, 0.5, 0.75 or 1.0, setZoom with a positive
\* argument adds 0.25 below 1.0 and leaves 1.0 alone, setZoom with a negative
\* argument takes off 0.25 above 0.25 and leaves 0.25 alone; setZoom(0) gives
\* 1.0 from any zoom; 0.25 becomes 1.0 with the third setZoom(+1) and no
\* sooner, 1.0 becomes 0.25 with the third setZoom(-1) and no sooner.
C5_ZoomSteps ==
  /\ [](/\ \A n \in 0 .. 2 : ZoomFrom(1, 1, n) = 1 + n
        /\ \A n \in 3 .. 5 : ZoomFrom(1, 1, n) = 4
        /\ \A n \in 0 .. 2 : ZoomFrom(4, -1, n) = 4 - n
        /\ \A n \in 3 .. 5 : ZoomFrom(4, -1, n) = 1)
  /\ [][op'.name = "setZoom" =>
          LET old == properties[op'.stage].zoom
              new == properties'[op'.stage].zoom
          IN /\ (op'.val > 0 /\ old \in ValidZooms) =>
                  new = (IF old < 4 THEN old + 1 ELSE 4)
             /\ (op'.val < 0 /\ old \in ValidZooms) =>
                  new = (IF old > 1 THEN old - 1 ELSE 1)
             /\ op'.val = 0 => new = 4
             /\ old \in ValidZooms => new \in ValidZooms]_vars

\* setZoom(+1) was called at zoom 0.75 and the zoom is 1.0 now
C5_Witness ==
  /\ op.name = "setZoom" /\ op.val > 0
  /\ properties[1].zoom = 4 /\ changed[1] /\ ret = RetUndefined
  /\ calls = <<<<"zoom", 0, 0, 0>>>>

\* C6: addScene(s, i) with 0 <= i <= N on a list of N scenes gives a list
\* of N + 1 scenes with s at position i, the scenes before i where they were
\* and those from i on one position later; addScene(s) puts s last; in both
\* cases getScene(s.id) is s, s.stage is the Stage, the Stage is dirty and s
\* is returned.
C6_AddSceneInserts ==
  [][\A S \in StageIds, s \in SceneIds :
     (op'.name = "addScene" /\ op'.stage = S /\ op'.scene = s) =>
       LET i == op'.index
           old == scenes[S]
           new == scenes'[S]
           N == Len(old)
       IN (i = NoIndex \/ (0 <= i /\ i <= N)) =>
            /\ Len(new) = N + 1
            /\ IF i = NoIndex
               THEN new[N + 1] = s /\ \A j \in 1 .. N : new[j] = old[j]
               ELSE /\ new[i + 1] = s
                    /\ \A j \in 1 .. i : new[j] = old[j]
                    /\ \A j \in (i + 1) .. N : new[j + 1] = old[j]
            /\ getScene(World, S, s)' = RetScene(s)
            /\ scene'[s].stage = S
            /\ changed'[S]
            /\ ret' = RetScene(s)
            /\ err' = ""]_vars

\* addScene(s, 1) has put s between two other scenes
C6_Witness ==
  /\ op.name = "addScene" /\ op.index = 1
  /\ Len(scenes[1]) = 3 /\ scenes[1][2] = op.scene
  /\ scenes[1][1] # op.scene /\ scenes[1][3] # op.scene
  /\ scenes[1][1] # scenes[1][3]

\* the list without every entry that is s
Without(array, s) == SelectSeq(array, LAMBDA x : x # s)

\* C7: removeScene(s) on a Stage whose list holds s leaves the list without
\* s and with the other scenes in their order, sets s.stage to null, marks
\* the Stage dirty and calls the detach hook once s.stage is null; when s was
\* the only scene of the list, hasScenes() is false afterwards.
C7_RemoveSceneRemoves ==
  [][\A S \in StageIds : \A s \in Owned(S) :
     (op'.name = "removeScene" /\ op'.stage = S /\ op'.scene = s) =>
          /\ scenes'[S] = Without(scenes[S], s)
          /\ scene'[s].stage = Null
          /\ changed'[S]
          /\ \E k \in 1 .. Len(calls') : calls'[k][1] = "scene.removeFromStage"
          /\ \A k \in 1 .. Len(calls') :
               calls'[k][1] = "scene.removeFromStage" => calls'[k][4] = Null
          /\ (Owned(S) = {s}) => ~hasScenes(World, S)']_vars

\* C8: shiftScene(scene, delta) for a scene of the list at position k
\* returns whether the scene ends at another position; when it does, the
\* scenes at k and k + delta have changed places and nothing else has; when
\* k + delta is out of range or delta is 0 it returns false; when it returns
\* false the order is unchanged, no error is raised and the Stage is not
\* marked dirty.
C8_ShiftSceneSwaps ==
  [][\A S \in StageIds : \A s \in Owned(S) :
     (op'.name = "shiftScene" /\ op'.stage = S /\ op'.scene = s) =>
       LET old == scenes[S]
           new == scenes'[S]
           k == indexOf(old, s)
           t == k + op'.i
           inRange == 0 <= t /\ t < Len(old)
           moved == indexOf(new, s) # k
       IN /\ ret' = RetBool(moved)
          /\ err' = ""
          /\ moved => /\ inRange
                      /\ new = [old EXCEPT ![k + 1] = old[t + 1],
                                           ![t + 1] = old[k + 1]]
          /\ (inRange /\ old[t + 1] # s) => moved
          /\ (~inRange \/ op'.i = 0) => ~moved
          /\ ~moved => (new = old /\ (changed'[S] => changed[S]))]_vars

\* shiftScene(s, 2) has moved s from the first to the last of three
\* positions, past a scene that stayed in the middle
C8_Witness ==
  /\ op.name = "shiftScene" /\ op.i = 2 /\ ret = RetBool(TRUE)
  /\ Len(scenes[1]) = 3 /\ scenes[1][3] = op.scene
  /\ scenes[1][1] # op.scene /\ scenes[1][2] # op.scene

\* C9: no scene is in the list of a Stage twice.
C9_NoDuplicateScene ==
  \A S \in stages : \A i, j \in 1 .. Len(scenes[S]) :
    i # j => scenes[S][i] # scenes[S][j]

\* C10: for every scene s and Stage S, s.stage is S exactly when s is in the
\* list of S.
C10_OwnershipAgrees ==
  \A S \in stages : \A s \in SceneIds : (scene[s].stage = S) <=> (s \in Owned(S))

\* what one frame asks of the collaborators for the scenes of array from
\* position i (1-based) on: for an enabled scene its render, then the blend
\* of its buffer with its properties; nothing for a disabled one
RECURSIVE FrameOf(_, _, _, _)
FrameOf(S, array, i, data) ==
  IF i > Len(array) THEN <<>>
  ELSE (IF scene[array[i]].enabled
        THEN <<<<"scene.render", array[i], data, 0>>,
               <<"composer.blendBuffer", S, array[i], TRUE>>>>
        ELSE <<>>) \o FrameOf(S, array, i + 1, data)

\* the positions of the list that hold an enabled scene
EnabledPositions(S) == {i \in 1 .. Len(scenes[S]) : scene[scenes[S][i]].enabled}

\* C11: one render(data) on an initialized Stage asks, in this order, for
\* exactly one composer.clear(backgroundColor, 1), then for each listed scene
\* in stored order that is enabled one scene.render(data) directly followed
\* by the blend of that scene's buffer with that scene's properties, then
\* for exactly one composer.renderToScreen(); a disabled scene is neither
\* rendered nor blended and there are as many blends as enabled scenes.
C11_RenderOrder ==
  [][\A S \in stages : \A data \in FrameData :
       (op'.name = "render" /\ op'.stage = S /\ op'.data = data
        /\ initialized[S])
       => /\ err' = ""
          /\ calls' = <<<<"composer.clear", S, 1, resources[S].backgroundColor>>>>
                       \o FrameOf(S, scenes[S], 1, data)
                       \o <<<<"composer.renderToScreen", S, 0, 0>>>>
          /\ Cardinality({k \in 1 .. Len(calls') :
                            calls'[k][1] = "composer.blendBuffer"})
             = Cardinality(EnabledPositions(S))
          /\ \A k \in 1 .. Len(calls') :
               calls'[k][1] = "scene.render" => scene[calls'[k][2]].enabled]_vars

\* a frame was rendered on an initialized Stage whose first scene is disabled
\* and whose second is enabled: clear, one render, one blend, renderToScreen
C11_Witness ==
  /\ op.name = "render" /\ initialized[op.stage]
  /\ Len(scenes[op.stage]) = 2
  /\ ~scene[scenes[op.stage][1]].enabled
  /\ scene[scenes[op.stage][2]].enabled
  /\ Len(calls) = 4
  /\ calls[3] = <<"composer.blendBuffer", op.stage, scenes[op.stage][2], TRUE>>

\* the components of a section that the registry lib knows, in order
Known(section, lib) == SelectSeq(section, LAMBDA name : name \in lib)

\* the number of components of a section that the registry lib does not know
Unknown(section, lib) ==
  Cardinality({i \in 1 .. Len(section) : section[i] \notin lib})

\* the names no registry knows, over the scenes of a configuration
RECURSIVE UnknownIn(_, _)
UnknownIn(descriptions, i) ==
  IF i > Len(descriptions) THEN 0
  ELSE Unknown(descriptions[i].displays, displayLibrary)
       + Unknown(descriptions[i].effects, effectsLibrary)
       + UnknownIn(descriptions, i + 1)

\* C12: after loadConfig with an object configuration no scene the Stage
\* owned before is attached (each went through the detach hook of
\* removeScene), the list holds exactly one new scene per entry of
\* config.scenes in the order of the configuration, every scene holds its
\* known components in order while each unknown name costs one warning and
\* stops nothing, and the properties are those of the stage block, or the
\* defaults without one.
C12_LoadConfigReplaces ==
  [][\A S \in stages : \A config \in LoadedConfigs :
       (op'.name = "loadConfig" /\ op'.stage = S /\ op'.config = config)
       => /\ \A s \in Owned(S) :
               /\ scene'[s].stage = Null
               /\ indexOf(scenes'[S], s) = NoIndex
               /\ \E k \in 1 .. Len(calls') :
                    calls'[k][1] = "scene.removeFromStage" /\ calls'[k][2] = s
          /\ Len(scenes'[S]) = (IF config.hasScenes THEN Len(config.scenes) ELSE 0)
          /\ \A i \in 1 .. Len(scenes'[S]) :
               LET id == scenes'[S][i]
                   description == config.scenes[i]
               IN /\ id \notin Owned(S)
                  /\ \A j \in 1 .. Len(scenes'[S]) : scenes'[S][j] = id => j = i
                  /\ scene'[id].stage = S
                  /\ scene'[id].enabled = description.properties.enabled
                  /\ scene'[id].elements =
                       Known(description.displays, displayLibrary)
                       \o Known(description.effects, effectsLibrary)
          /\ Cardinality({k \in 1 .. Len(calls') : calls'[k][1] = "logger.warn"})
             = (IF config.hasScenes THEN UnknownIn(config.scenes, 1) ELSE 0)
          /\ IF config.hasStage
             THEN \A key \in DOMAIN config.stage :
                    properties'[S][key] = config.stage[key]
             ELSE properties'[S] = defaultProperties]_vars

\* a configuration of two scenes, the first with an unknown display and an
\* unknown effect, was loaded into a Stage that owned a scene: two warnings,
\* two new scenes, the first with its two known components
C12_Witness ==
  /\ op.name = "loadConfig"
  /\ Len(op.config.scenes) = 2
  /\ Len(scenes[op.stage]) = 2
  /\ scene[scenes[op.stage][1]].elements = <<"ImageDisplay", "BlurEffect">>
  /\ scene[scenes[op.stage][2]].elements = <<"TextDisplay">>
  /\ \E k \in 1 .. Len(calls) : calls[k][1] = "scene.removeFromStage"
  /\ Cardinality({k \in 1 .. Len(calls) : calls[k][1] = "logger.warn"}) = 2

\* the partial property records update is handed
UpdateInputs == ZoomUpdates \cup ColorInputs \cup SizeInputs

\* C13: update(properties) returns true exactly when a provided key differs
\* from the current value; an update that changes nothing returns false and
\* leaves the properties and the dirty flag as they are; a key that is not
\* provided keeps its value.
C13_UpdateReturns ==
  [][\A S \in stages : \A props \in UpdateInputs :
       (op'.name = "update" /\ op'.stage = S /\ op'.props = props)
       => LET differs == \E key \in DOMAIN props :
                           props[key] # properties[S][key]
          IN /\ ret' = RetBool(differs)
             /\ ~differs => /\ properties'[S] = properties[S]
                             /\ changed'[S] = changed[S]
             /\ \A key \in DOMAIN properties[S] \ DOMAIN props :
                  properties'[S][key] = properties[S][key]]_vars

\* the renderer, the composer, the two buffers and the colour all exist
AllCreated(r) ==
  /\ r.renderer # Absent /\ r.composer # Absent
  /\ r.canvasBuffer # Absent /\ r.glBuffer # Absent
  /\ r.backgroundColor # "undefined"

\* C14: init on an initialized Stage changes nothing, whatever its
\* allocations would do: renderer, composer, buffers and colour stay the
\* objects they are; `initialized` is true only when all five have been
\* created; an init in which an allocation fails leaves `initialized` false,
\* and an init in which none fails creates all five and sets it.
C14_InitAllOrNothing ==
  [][\A S \in stages :
       /\ initialized'[S] => AllCreated(resources'[S])
       /\ (op'.name = "init" /\ op'.stage = S /\ initialized[S])
          => /\ UNCHANGED stateVars
             /\ err' = ""
       /\ (op'.name = "init" /\ op'.stage = S /\ ~initialized[S])
          => /\ err' # "" => ~initialized'[S]
             /\ op'.fail # "none" => err' # ""
             /\ op'.fail = "none"
                => /\ err' = "" /\ initialized'[S]
                   /\ resources'[S].backgroundColor = properties[S].backgroundColor
                   /\ resources'[S].composer =
                        Size(properties[S].width, properties[S].height)]_vars

\* an init whose last allocation, the colour, failed: both buffers exist, the
\* colour does not, and the Stage is not initialized
C14_Witness ==
  /\ op.name = "init" /\ op.fail = "backgroundColor" /\ err # ""
  /\ ~initialized[op.stage]
  /\ resources[op.stage].glBuffer # Absent
  /\ resources[op.stage].backgroundColor = "undefined"

\* C15: toJSON() returns {id, name, type, properties} with the properties
\* the Stage has at the call and changes nothing; a write to the returned
\* record leaves the Stage as it is; and no later call on the Stage changes
\* a record returned earlier.
C15_ToJSONCopy ==
  [][\A S \in stages :
       /\ (op'.name = "toJSON" /\ op'.stage = S)
          => /\ ret'[2] = [id |-> S, name |-> StageName,
                           type |-> DISPLAY_TYPE_STAGE,
                           properties |-> properties[S]]
             /\ exported'.record = ret'[2]
             /\ UNCHANGED stateVars
       /\ op'.name = "record.write"
          => /\ exported'.record.properties[op'.key] = op'.value
             /\ UNCHANGED stateVars
       /\ op'.name \notin {"toJSON", "record.write"}
          => exported' = exported]_vars

\* the holder of a record wrote a value to its properties that the Stage
\* does not have: the record has it, the Stage has not
C15_Witness ==
  /\ op.name = "record.write"
  /\ exported.record.properties[op.key] = op.value
  /\ properties[exported.stage][op.key] # op.value

\* C16: only resetChanges() clears the dirty flag: from a state in which the
\* Stage is dirty, every step that is no resetChanges() of that Stage, a
\* shiftScene that moves nothing included, leaves `changed` true and
\* hasChanges() true.
C16_DirtyUntilReset ==
  [][\A S \in stages :
       (changed[S] /\ ~(op'.name = "resetChanges" /\ op'.stage = S))
       => changed'[S] /\ hasChanges(World, S)']_vars

\* the resizes of the scenes of array from position i (1-based) on
RECURSIVE SceneResizes(_, _, _, _)
SceneResizes(array, i, width, height) ==
  IF i > Len(array) THEN <<>>
  ELSE <<<<"scene.setSize", array[i], width, height>>>>
       \o SceneResizes(array, i + 1, width, height)

\* everything a setSize(width, height) of Stage S does, in the order claimed
ResizeOrder(S, width, height) ==
  SceneResizes(scenes[S], 1, width, height)
  \o <<<<"composer.setSize", S, width, height>>,
       <<"canvasBuffer.setSize", S, width, height>>,
       <<"glBuffer.setSize", S, width, height>>,
       <<"stage-resize", 0, 0, 0>>>>

\* C17: setSize(width, height) resizes every listed scene first, in stored
\* order, then the composer, then the canvas buffer and the GL buffer, and
\* notifies 'stage-resize' once and last: what the call does is always a
\* beginning of that order, all of it when composer and buffers exist; and
\* when the notification is emitted the composer, both buffers and every
\* listed scene have the size (width, height).
C17_SetSizeOrder ==
  [][\A S \in stages : \A size \in SizeInputs :
       (op'.name = "setSize" /\ op'.stage = S /\ op'.size = size)
       => LET order == ResizeOrder(S, size.width, size.height)
              emitted == {k \in 1 .. Len(calls') : calls'[k][1] = "stage-resize"}
          IN /\ Len(calls') <= Len(order)
             /\ calls' = SubSeq(order, 1, Len(calls'))
             /\ Len(calls') >= Len(scenes[S])
             /\ (/\ resources[S].composer # Absent
                 /\ resources[S].canvasBuffer # Absent
                 /\ resources[S].glBuffer # Absent)
                => calls' = order /\ err' = ""
             /\ emitted # {}
                => /\ emitted = {Len(calls')}
                   /\ resources'[S].composer = Size(size.width, size.height)
                   /\ resources'[S].canvasBuffer = Size(size.width, size.height)
                   /\ resources'[S].glBuffer = Size(size.width, size.height)
                   /\ \A s \in Owned(S) :
                        scene'[s].size = Size(size.width, size.height)]_vars

\* an initialized Stage with two different scenes was resized to 1280 x 720:
\* two scene resizes, composer, two buffers, then the notification
C17_Witness ==
  /\ op.name = "setSize" /\ op.size.width = 1280 /\ err = ""
  /\ Len(scenes[op.stage]) = 2
  /\ scenes[op.stage][1] # scenes[op.stage][2]
  /\ Len(calls) = 6
  /\ calls[1] = <<"scene.setSize", scenes[op.stage][1], 1280, 720>>
  /\ calls[6] = <<"stage-resize", 0, 0, 0>>

\* how often the detach hook of scene s was called in the last call
Detached(s) ==
  Cardinality({k \in 1 .. Len(calls) :
                 calls[k][1] = "scene.removeFromStage" /\ calls[k][2] = s})

\* the positions of the list of Stage S that hold scene s
Positions(S, s) == {i \in 1 .. Len(scenes[S]) : scenes[S][i] = s}

\* C18: clearScenes() on a Stage with N >= 0 listed scenes leaves the list
\* empty and hasScenes() false; every listed scene, none skipped, has its
\* stage reference null and its detach hook called once for each position it
\* held (N calls in all, one per scene of a list without repetition); the
\* display counter is reset and the Stage is dirty, also when N = 0.
C18_ClearScenesAll ==
  [][\A S \in stages :
       (op'.name = "clearScenes" /\ op'.stage = S)
       => /\ err' = ""
          /\ scenes'[S] = <<>>
          /\ ~hasScenes(World, S)'
          /\ \A s \in Owned(S) :
               /\ scene'[s].stage = Null
               /\ Detached(s)' = Cardinality(Positions(S, s))
          /\ Len(calls') = Len(scenes[S])
          /\ displayCount' = 0
          /\ changed'[S]]_vars

\* clearScenes() has run on a Stage that listed three different scenes: three
\* detach hooks, an empty list, the counter at 0, the Stage dirty
C18_Witness ==
  /\ op.name = "clearScenes" /\ err = ""
  /\ Len(calls) = 3
  /\ \A s \in SceneIds : s <= 3 => Detached(s) = 1 /\ scene[s].stage = Null
  /\ scenes[op.stage] = <<>>
  /\ displayCount = 0 /\ changed[op.stage]

\* C19: resize, zoom, property update and the load of an object
\* configuration complete without error in every reachable state, that of a
\* Stage that was created and not yet init-ed included.
C19_DefinedBeforeInit ==
  [][\A S \in stages :
       (/\ op'.stage = S
        /\ \/ op'.name \in {"setSize", "setZoom", "update"}
           \/ op'.name = "loadConfig" /\ op'.config.type = "object")
       => err' = ""]_vars

\* C20: both hooks of a scene are optional: addScene and removeScene of a
\* scene that defines neither, and clearScenes of a list that holds one,
\* complete without error and do everything else they do: the Stage is dirty
\* afterwards, an added scene is listed and refers to the Stage, a removed
\* one refers to no Stage, a cleared list is empty.
C20_HooksOptional ==
  [][\A S \in stages : \A s \in SceneIds :
       (~scene[s].hooks /\ op'.stage = S)
       => /\ (op'.name = "addScene" /\ op'.scene = s)
             => /\ err' = "" /\ changed'[S]
                /\ scene'[s].stage = S /\ indexOf(scenes'[S], s) # NoIndex
          /\ (op'.name = "removeScene" /\ op'.scene = s)
             => /\ err' = "" /\ changed'[S]
                /\ scene'[s].stage = Null
          /\ (op'.name = "clearScenes" /\ s \in Owned(S))
             => /\ err' = "" /\ changed'[S]
                /\ scene'[s].stage = Null /\ scenes'[S] = <<>>]_vars

====
